---- MODULE Spec2Model ----
(***************************************************************************)
(* Model of the metadata monitor: the snapshot diff compare_metadata of    *)
(* src/test_data.py and the fetch / save / compare cycle of the two main   *)
(* functions (src/test_data.py and src/Get_Date.py).                        *)
(*                                                                         *)
(* A metadata dict is a record with one field per key the code reads; the  *)
(* value Absent says the key is not in the dict and None is Python's None. *)
(* The descriptive keys the diff never reads (author, home_page, stars,    *)
(* forks, license) are represented by the one field stars.                  *)
(* output/metadata.csv and the update_report files are written and never   *)
(* read back by either script; they are not part of the state.             *)
(***************************************************************************)
EXTENDS Integers, Sequences, FiniteSets, TLC

VARIABLES
    pc,             \* position of the running function
    prog,           \* which script is running: "test_data", "Get_Date" or "compare"
    file,           \* contents of output/metadata.json
    file_at_start,  \* contents of output/metadata.json when the run began
    loaded,         \* whether this run has read output/metadata.json
    writes,         \* number of writes to output/metadata.json in this run
    previous_data,  \* old_data of compare_metadata / previous_data of main
    current_data,   \* new_data of compare_metadata / current_data, metadata of main
    idx,            \* index in targets of the next target of the fetch loop
    attempted,      \* the targets whose fetch was called in this run, in call order
    fetched,        \* the targets whose request succeeded in this run, in order
    clock,          \* datetime.now() of the run
    raised,         \* whether compare_metadata ended with a KeyError
    update_report   \* the list compare_metadata returned

vars == <<pc, prog, file, file_at_start, loaded, writes, previous_data,
          current_data, idx, attempted, fetched, clock, raised, update_report>>

-----------------------------------------------------------------------------
(* Values *)

Absent == "<absent>"
None == "<None>"

PYPI == "pypi"
GITHUB == "github"

\* change_type literals of compare_metadata: "新增", "版本更新", "仓库更新", "移除"
Added == "Added"
VersionUpdated == "VersionUpdated"
RepoUpdated == "RepoUpdated"
Removed == "Removed"

Times == {"t1", "t2"}

\* output/metadata.json: absent, unparsable, or holding a JSON list of dicts
File(state, data) == [state |-> state, data |-> data]
Missing == File("missing", <<>>)
Corrupt == File("corrupt", <<>>)

-----------------------------------------------------------------------------
(* Python dict and truthiness primitives *)

\* d.get(k): None when the key is missing
Get(item, k) == IF item[k] = Absent THEN None ELSE item[k]

\* truth value of a string-or-None
Truthy(v) == v # None /\ v # ""

\* a or b
Or(a, b) == IF Truthy(a) THEN a ELSE b

\* (item["source"], item["name"])
KeyOf(item) == <<item.source, item.name>>

\* an insertion-ordered dict is a sequence of <<key, value>> pairs
HasKey(d, k) == \E i \in 1..Len(d) : d[i][1] = k

Lookup(d, k) == d[CHOOSE i \in 1..Len(d) : d[i][1] = k][2]

\* DictSet keeping the value a key already has
DictSet_KeepFirst(d, k, v) == IF HasKey(d, k) THEN d ELSE Append(d, <<k, v>>)

\* d[k] = v: a key already in the dict keeps its position and takes the new value
DictSet(d, k, v) ==
    IF HasKey(d, k)
    THEN [i \in 1..Len(d) |-> IF d[i][1] = k THEN <<k, v>> ELSE d[i]]
    ELSE Append(d, <<k, v>>)

\* {(item["source"], item["name"]): item for item in data}
RECURSIVE DictOf(_)
DictOf(data) ==
    IF data = <<>> THEN <<>>
    ELSE LET n == Len(data)
         IN DictSet(DictOf(SubSeq(data, 1, n - 1)), KeyOf(data[n]), data[n])

-----------------------------------------------------------------------------
(* compare_metadata *)

Event(source, name, change_type, old_value, new_value, check_time) ==
    [source |-> source, name |-> name, change_type |-> change_type,
     old_value |-> old_value, new_value |-> new_value, check_time |-> check_time]

Ok(events) == [raised |-> FALSE, updates |-> events]
KeyError == [raised |-> TRUE, updates |-> <<>>]

\* AddedStep labelling its event as the update branch does
AddedStep_Mislabelled(new_item) ==
    IF new_item.checked_at = Absent THEN KeyError
    ELSE Ok(<<Event(new_item.source, new_item.name, VersionUpdated, None,
                    Or(Get(new_item, "version"), Get(new_item, "last_updated")),
                    new_item.checked_at)>>)

\* the "新增" branch
AddedStep(new_item) ==
    IF new_item.checked_at = Absent THEN KeyError
    ELSE Ok(<<Event(new_item.source, new_item.name, Added, None,
                    Or(Get(new_item, "version"), Get(new_item, "last_updated")),
                    new_item.checked_at)>>)

\* UpdatedStep comparing the whole dicts instead of the comparison field
UpdatedStep_WholeRecord(old_item, new_item) ==
    IF old_item = new_item \/ new_item.source \notin {PYPI, GITHUB} THEN Ok(<<>>)
    ELSE IF new_item.source = PYPI
    THEN Ok(<<Event(PYPI, new_item.name, VersionUpdated, old_item.version,
                    new_item.version, new_item.checked_at)>>)
    ELSE Ok(<<Event(GITHUB, new_item.name, RepoUpdated, old_item.last_updated,
                    new_item.last_updated, new_item.checked_at)>>)

\* UpdatedStep with old_value and new_value exchanged
UpdatedStep_Swapped(old_item, new_item) ==
    IF new_item.source = PYPI /\ old_item.version # new_item.version
    THEN Ok(<<Event(PYPI, new_item.name, VersionUpdated, new_item.version,
                    old_item.version, new_item.checked_at)>>)
    ELSE IF new_item.source = GITHUB
            /\ old_item.last_updated # new_item.last_updated
    THEN Ok(<<Event(GITHUB, new_item.name, RepoUpdated, new_item.last_updated,
                    old_item.last_updated, new_item.checked_at)>>)
    ELSE Ok(<<>>)

\* the if / elif of the else branch; item[k] of a missing key raises KeyError
UpdatedStep(old_item, new_item) ==
    IF new_item.source = PYPI
    THEN IF old_item.version = Absent \/ new_item.version = Absent THEN KeyError
         ELSE IF old_item.version # new_item.version
         THEN IF new_item.checked_at = Absent THEN KeyError
              ELSE Ok(<<Event(PYPI, new_item.name, VersionUpdated,
                              old_item.version, new_item.version,
                              new_item.checked_at)>>)
         ELSE Ok(<<>>)
    ELSE IF new_item.source = GITHUB
    THEN IF old_item.last_updated = Absent \/ new_item.last_updated = Absent
         THEN KeyError
         ELSE IF old_item.last_updated # new_item.last_updated
         THEN IF new_item.checked_at = Absent THEN KeyError
              ELSE Ok(<<Event(GITHUB, new_item.name, RepoUpdated,
                              old_item.last_updated, new_item.last_updated,
                              new_item.checked_at)>>)
         ELSE Ok(<<>>)
    ELSE Ok(<<>>)

\* one iteration of "for key, new_item in new_dict.items()"
NewStep(old_dict, key, new_item) ==
    IF ~HasKey(old_dict, key) THEN AddedStep(new_item)
    ELSE UpdatedStep(Lookup(old_dict, key), new_item)

\* the first loop over the first n entries of new_dict
RECURSIVE NewLoop(_, _, _)
NewLoop(old_dict, new_dict, n) ==
    IF n = 0 THEN Ok(<<>>)
    ELSE LET before == NewLoop(old_dict, new_dict, n - 1)
         IN IF before.raised THEN KeyError
            ELSE LET step == NewStep(old_dict, new_dict[n][1], new_dict[n][2])
                 IN IF step.raised THEN KeyError
                    ELSE Ok(before.updates \o step.updates)

\* RemovedStep with its membership test inverted
RemovedStep_Inverted(new_dict, key, old_item, now) ==
    IF ~HasKey(new_dict, key) THEN <<>>
    ELSE <<Event(old_item.source, old_item.name, Removed,
                 Or(Get(old_item, "version"), Get(old_item, "last_updated")),
                 None, now)>>

\* one iteration of "for key in old_dict"
RemovedStep(new_dict, key, old_item, now) ==
    IF HasKey(new_dict, key) THEN <<>>
    ELSE <<Event(old_item.source, old_item.name, Removed,
                 Or(Get(old_item, "version"), Get(old_item, "last_updated")),
                 None, now)>>

\* the second loop over the first n entries of old_dict
RECURSIVE RemovedLoop(_, _, _, _)
RemovedLoop(old_dict, new_dict, n, now) ==
    IF n = 0 THEN <<>>
    ELSE RemovedLoop(old_dict, new_dict, n - 1, now)
         \o RemovedStep(new_dict, old_dict[n][1], old_dict[n][2], now)

\* compare_metadata running the removal loop before the loop over new_dict
compare_metadata_RemovedFirst(old_data, new_data, now) ==
    LET old_dict == DictOf(old_data)
        new_dict == DictOf(new_data)
        first == NewLoop(old_dict, new_dict, Len(new_dict))
    IN IF first.raised THEN KeyError
       ELSE Ok(RemovedLoop(old_dict, new_dict, Len(old_dict), now) \o first.updates)

compare_metadata(old_data, new_data, now) ==
    LET old_dict == DictOf(old_data)
        new_dict == DictOf(new_data)
        first == NewLoop(old_dict, new_dict, Len(new_dict))
    IN IF first.raised THEN KeyError
       ELSE Ok(first.updates \o RemovedLoop(old_dict, new_dict, Len(old_dict), now))

-----------------------------------------------------------------------------
(* Metadata dicts *)

Record(source, name, version, last_updated, stars, checked_at) ==
    [source |-> source, name |-> name, version |-> version,
     last_updated |-> last_updated, stars |-> stars, checked_at |-> checked_at]

\* the dict get_pypi_metadata returns for a response carrying this version
PypiRecord(name, version, now) == Record(PYPI, name, version, Absent, Absent, now)

\* the dict get_github_metadata returns for a response carrying these values
GithubRecord(name, stars, updated_at, now) ==
    Record(GITHUB, name, Absent, updated_at, stars, now)

Versions == {"1.0", "1.1"}
Updates == {"2023-01-01", "2023-02-02"}
Stars == {"10", "11"}

\* the dicts the two fetch functions can return, for three of the targets:
\* numpy at two versions and two fetch times, pandas at one version and two
\* fetch times, torvalds/linux at two update stamps and two star counts
Fetched ==
    {PypiRecord("numpy", v, t) : v \in Versions, t \in Times}
    \cup {PypiRecord("pandas", "2.0", t) : t \in Times}
    \cup {GithubRecord("torvalds/linux", s, u, "t1") : s \in Stars, u \in Updates}

\* dicts as a snapshot file written by hand or by another tool may hold them:
\* the comparison keys missing, null or empty, or both of them present
FieldValues(present) == {Absent, None, ""} \cup present

Loose ==
    {Record(s, "x", v, u, Absent, "t1") :
         s \in {PYPI, GITHUB}, v \in FieldValues({"1.0", "1.1"}),
         u \in FieldValues({"2023-01-01"})}

\* bound on len(old_data) + len(new_data) of a compare_metadata call
MaxTotal == 4
\* the same bound for calls on the Loose dicts
MaxLoose == 2

SeqsOf(S, n) == UNION {[1..k -> S] : k \in 0..n}

-----------------------------------------------------------------------------
(* A call of compare_metadata on its own *)

CallInit(Dicts, max) ==
    /\ pc = "call"
    /\ prog = "compare"
    /\ file = Missing
    /\ file_at_start = Missing
    /\ loaded = FALSE
    /\ writes = 0
    /\ \E a \in 0..max :
           /\ previous_data \in [1..a -> Dicts]
           /\ current_data \in SeqsOf(Dicts, max - a)
    /\ idx = 1
    /\ attempted = <<>>
    /\ fetched = <<>>
    /\ clock = "t1"
    /\ raised = FALSE
    /\ update_report = <<>>

\* update_report = compare_metadata(previous_data, current_data), at any time
Compare ==
    /\ pc = "call"
    /\ \E now \in Times :
           LET r == compare_metadata(previous_data, current_data, now)
           IN /\ raised' = r.raised
              /\ update_report' = r.updates
    /\ pc' = "returned"
    /\ UNCHANGED <<prog, file, file_at_start, loaded, writes, previous_data,
                   current_data, idx, attempted, fetched, clock>>

InitDiff == CallInit(Fetched, MaxTotal)
InitLoose == CallInit(Loose, MaxLoose)

SpecDiff == InitDiff /\ [][Compare]_vars
SpecLoose == InitLoose /\ [][Compare]_vars

-----------------------------------------------------------------------------
(* The fetch functions and the snapshot file *)

\* targets of main, the same list in both scripts
targets ==
    << [source |-> PYPI, name |-> "numpy"],
       [source |-> PYPI, name |-> "pandas"],
       [source |-> GITHUB, name |-> "torvalds/linux"],
       [source |-> GITHUB, name |-> "python/cpython"] >>

\* target["name"].split("/") on the configured repositories
split(name) ==
    CASE name = "torvalds/linux" -> <<"torvalds", "linux">>
      [] name = "python/cpython" -> <<"python", "cpython">>

\* what the HTTP request of a fetch ends with: an exception (ok = FALSE) or
\* a response body with these values
Response(ok, version, stars, updated_at) ==
    [ok |-> ok, version |-> version, stars |-> stars, updated_at |-> updated_at]

PypiResponses ==
    {Response(FALSE, Absent, Absent, Absent)}
    \cup {Response(TRUE, v, Absent, Absent) : v \in Versions}

GithubResponses ==
    {Response(FALSE, Absent, Absent, Absent)}
    \cup {Response(TRUE, Absent, "10", u) : u \in Updates}

Responses(source) == IF source = PYPI THEN PypiResponses ELSE GithubResponses

\* get_pypi_metadata: <<>> is the None of the except branch; the name is
\* the response's, which for these targets is the requested name; checked_at
\* is Absent in Get_Date.py, whose dict has no such key
get_pypi_metadata(package_name, resp, checked_at) ==
    IF resp.ok THEN <<PypiRecord(package_name, resp.version, checked_at)>>
    ELSE <<>>

\* get_github_metadata
get_github_metadata(owner, repo, resp, checked_at) ==
    IF resp.ok
    THEN <<GithubRecord(owner \o "/" \o repo, resp.stars, resp.updated_at,
                        checked_at)>>
    ELSE <<>>

\* the if / elif of the loop body of main
FetchTarget(target, resp, checked_at) ==
    IF target.source = PYPI
    THEN get_pypi_metadata(target.name, resp, checked_at)
    ELSE LET parts == split(target.name)
         IN get_github_metadata(parts[1], parts[2], resp, checked_at)

\* AfterFetch leaving the loop at the first failed fetch
AfterFetch_AbortOnFailure(i, metadata) ==
    IF i = Len(targets) \/ metadata = <<>> THEN "save" ELSE "fetch"

\* where the for loop goes after the iteration on targets[i]: no outcome of
\* a fetch leaves the loop early
AfterFetch(i, metadata) == IF i = Len(targets) THEN "save" ELSE "fetch"

\* load_previous_metadata that never reads the file
load_previous_metadata_Unread(f) == <<>>

\* load_previous_metadata: [] when the file does not exist or cannot be parsed
load_previous_metadata(f) == IF f.state = "json" THEN f.data ELSE <<>>

\* save_to_json on output/metadata.json: the dump succeeds, or open() fails
\* and the file is left as it was, or the dump fails after open() truncated it
SaveOutcomes == {"ok", "open_failed", "write_failed"}

save_to_json(data, f, outcome) ==
    CASE outcome = "ok" -> File("json", data)
      [] outcome = "open_failed" -> f
      [] outcome = "write_failed" -> Corrupt

-----------------------------------------------------------------------------
(* The runs of the two scripts, one after the other on the same directory *)

Init ==
    /\ pc = "exit"
    /\ prog = "test_data"
    /\ file = Missing
    /\ file_at_start = Missing
    /\ loaded = FALSE
    /\ writes = 0
    /\ previous_data = <<>>
    /\ current_data = <<>>
    /\ idx = 1
    /\ attempted = <<>>
    /\ fetched = <<>>
    /\ clock = "t1"
    /\ raised = FALSE
    /\ update_report = <<>>

\* a script is started: python test_data.py or python Get_Date.py
Run ==
    /\ pc = "exit"
    /\ prog' \in {"test_data", "Get_Date"}
    /\ clock' \in Times
    /\ pc' = "start"
    /\ file_at_start' = file
    /\ UNCHANGED <<file, loaded, writes, previous_data, current_data, idx,
                   attempted, fetched, raised, update_report>>

\* test_data.main up to the fetch loop
TD_Load ==
    /\ prog = "test_data"
    /\ pc = "start"
    /\ previous_data' = load_previous_metadata(file)
    /\ loaded' = TRUE
    /\ current_data' = <<>>
    /\ idx' = 1
    /\ pc' = "fetch"
    /\ UNCHANGED <<prog, file, file_at_start, writes, attempted, fetched,
                   clock, raised, update_report>>

\* one iteration of the fetch loop of test_data.main
TD_Fetch ==
    /\ prog = "test_data"
    /\ pc = "fetch"
    /\ \E resp \in Responses(targets[idx].source) :
           LET metadata == FetchTarget(targets[idx], resp, clock)
           IN /\ current_data' = current_data \o metadata
              /\ fetched' = IF resp.ok THEN Append(fetched, idx) ELSE fetched
              /\ pc' = AfterFetch(idx, metadata)
    /\ attempted' = Append(attempted, idx)
    /\ idx' = idx + 1
    /\ UNCHANGED <<prog, file, file_at_start, loaded, writes, previous_data,
                   clock, raised, update_report>>

\* "if current_data: save_to_json(...)" of test_data.main
TD_Save ==
    /\ prog = "test_data"
    /\ pc = "save"
    /\ IF current_data # <<>>
       THEN \E outcome \in SaveOutcomes :
                /\ file' = save_to_json(current_data, file, outcome)
                /\ writes' = IF outcome = "open_failed" THEN writes
                             ELSE writes + 1
       ELSE UNCHANGED <<file, writes>>
    /\ pc' = "compare"
    /\ UNCHANGED <<prog, file_at_start, loaded, previous_data, current_data,
                   idx, attempted, fetched, clock, raised, update_report>>

\* update_report = compare_metadata(previous_data, current_data) of test_data.main
TD_Compare ==
    /\ prog = "test_data"
    /\ pc = "compare"
    /\ LET r == compare_metadata(previous_data, current_data, clock)
       IN /\ raised' = r.raised
          /\ update_report' = r.updates
    /\ pc' = "return"
    /\ UNCHANGED <<prog, file, file_at_start, loaded, writes, previous_data,
                   current_data, idx, attempted, fetched, clock>>

\* Get_Date.main up to the fetch loop
GD_Start ==
    /\ prog = "Get_Date"
    /\ pc = "start"
    /\ current_data' = <<>>
    /\ idx' = 1
    /\ pc' = "fetch"
    /\ UNCHANGED <<prog, file, file_at_start, loaded, writes, previous_data,
                   attempted, fetched, clock, raised, update_report>>

\* one iteration of the fetch loop of Get_Date.main
GD_Fetch ==
    /\ prog = "Get_Date"
    /\ pc = "fetch"
    /\ \E resp \in Responses(targets[idx].source) :
           LET result == FetchTarget(targets[idx], resp, Absent)
           IN /\ current_data' = current_data \o result
              /\ fetched' = IF resp.ok THEN Append(fetched, idx) ELSE fetched
              /\ pc' = AfterFetch(idx, result)
    /\ attempted' = Append(attempted, idx)
    /\ idx' = idx + 1
    /\ UNCHANGED <<prog, file, file_at_start, loaded, writes, previous_data,
                   clock, raised, update_report>>

\* save_to_json(metadata, json_path) of Get_Date.main, whatever metadata holds
GD_Save ==
    /\ prog = "Get_Date"
    /\ pc = "save"
    /\ \E outcome \in SaveOutcomes :
           /\ file' = save_to_json(current_data, file, outcome)
           /\ writes' = IF outcome = "open_failed" THEN writes ELSE writes + 1
    /\ pc' = "return"
    /\ UNCHANGED <<prog, file_at_start, loaded, previous_data, current_data,
                   idx, attempted, fetched, clock, raised, update_report>>

\* main returns and the process ends: only the file outlives it
Exit ==
    /\ pc = "return"
    /\ pc' = "exit"
    /\ prog' = "test_data"
    /\ file_at_start' = file
    /\ loaded' = FALSE
    /\ writes' = 0
    /\ previous_data' = <<>>
    /\ current_data' = <<>>
    /\ idx' = 1
    /\ attempted' = <<>>
    /\ fetched' = <<>>
    /\ clock' = "t1"
    /\ raised' = FALSE
    /\ update_report' = <<>>
    /\ UNCHANGED file

Next ==
    \/ Run
    \/ TD_Load
    \/ TD_Fetch
    \/ TD_Save
    \/ TD_Compare
    \/ GD_Start
    \/ GD_Fetch
    \/ GD_Save
    \/ Exit

Spec == Init /\ [][Next]_vars

-----------------------------------------------------------------------------
(* Vocabulary of the properties, defined on the input lists themselves *)

\* compare_metadata has returned or raised
Returned == prog = "compare" /\ pc = "returned"

Keys(data) == {KeyOf(data[i]) : i \in 1..Len(data)}

\* the snapshot invariant: (source, name) names one record
Unique(data) ==
    \A i, j \in 1..Len(data) : KeyOf(data[i]) = KeyOf(data[j]) => i = j

\* the record of a key in a snapshot with unique keys
RecordOf(data, k) == data[CHOOSE i \in 1..Len(data) : KeyOf(data[i]) = k]

\* the key of the comparison field of a source kind
ComparisonKey(source) == IF source = PYPI THEN "version" ELSE "last_updated"

\* the comparison field of a record, Absent when the dict has no such key
ComparisonField(item) == item[ComparisonKey(item.source)]

FieldUpdated(source) == IF source = PYPI THEN VersionUpdated ELSE RepoUpdated

\* the positions of update_report holding an event for this key
EventsOf(k) ==
    {i \in 1..Len(update_report) :
         <<update_report[i].source, update_report[i].name>> = k}

\* an event without its check_time
Core(e) ==
    [source |-> e.source, name |-> e.name, change_type |-> e.change_type,
     old_value |-> e.old_value, new_value |-> e.new_value]

Cores(events) == [i \in 1..Len(events) |-> Core(events[i])]

\* an event reduced to its kind and key
Brief(events) ==
    [i \in 1..Len(events) |->
         <<events[i].change_type, events[i].source, events[i].name>>]

\* the elements of data at the positions in I, in order, among the first n
RECURSIVE AtIndices(_, _, _)
AtIndices(data, I, n) ==
    IF n = 0 THEN <<>>
    ELSE AtIndices(data, I, n - 1) \o (IF n \in I THEN <<data[n]>> ELSE <<>>)

-----------------------------------------------------------------------------
(* C1 *)

\* C1: for snapshots with unique keys, compare_metadata emits no event for a
\* key that is in both snapshots with an equal comparison field (version for
\* pypi, last_updated for github), whatever the other fields are; and
\* compare_metadata(S, S) is the empty list.
C1_NoEventWhenUnchanged ==
    (Returned /\ Unique(previous_data) /\ Unique(current_data)) =>
        /\ ~raised
        /\ \A k \in Keys(previous_data) \cap Keys(current_data) :
               ComparisonField(RecordOf(previous_data, k))
                   = ComparisonField(RecordOf(current_data, k))
               => EventsOf(k) = {}
        /\ previous_data = current_data => update_report = <<>>

\* a call on two snapshots of two records or more where a key has an equal
\* comparison field and different other fields
C1_Witness ==
    /\ Returned
    /\ Unique(previous_data) /\ Unique(current_data)
    /\ Len(previous_data) >= 2
    /\ \E k \in Keys(previous_data) \cap Keys(current_data) :
           /\ ComparisonField(RecordOf(previous_data, k))
                  = ComparisonField(RecordOf(current_data, k))
           /\ RecordOf(previous_data, k) # RecordOf(current_data, k)
           /\ RecordOf(previous_data, k).source = GITHUB

-----------------------------------------------------------------------------
(* C2 *)

\* C2: compare_metadata([], S), S with unique keys, is one "新增" event per
\* record of S, with the record's source and name, in the order of S.
C2_AllAdded ==
    (Returned /\ previous_data = <<>> /\ Unique(current_data)) =>
        /\ ~raised
        /\ Len(update_report) = Len(current_data)
        /\ \A i \in 1..Len(current_data) :
               /\ update_report[i].change_type = Added
               /\ update_report[i].source = current_data[i].source
               /\ update_report[i].name = current_data[i].name

C2_Witness ==
    /\ Returned
    /\ previous_data = <<>>
    /\ Unique(current_data)
    /\ Len(current_data) = 3
    /\ Len(update_report) = 3

-----------------------------------------------------------------------------
(* C3 *)

\* C3: compare_metadata(S, []), S with unique keys, is one "移除" event per
\* record of S, with the record's source and name, in the order of S.
C3_AllRemoved ==
    (Returned /\ current_data = <<>> /\ Unique(previous_data)) =>
        /\ ~raised
        /\ Len(update_report) = Len(previous_data)
        /\ \A i \in 1..Len(previous_data) :
               /\ update_report[i].change_type = Removed
               /\ update_report[i].source = previous_data[i].source
               /\ update_report[i].name = previous_data[i].name

C3_Witness ==
    /\ Returned
    /\ current_data = <<>>
    /\ Unique(previous_data)
    /\ Len(previous_data) = 3
    /\ Len(update_report) = 3

-----------------------------------------------------------------------------
(* C4 *)

\* C4: for a key in both snapshots (unique keys) whose comparison field has
\* two different present values, compare_metadata emits exactly one event for
\* the key: "版本更新" (pypi) or "仓库更新" (github), old_value the previous
\* comparison field and new_value the current one.
C4_OneFieldUpdated ==
    (Returned /\ Unique(previous_data) /\ Unique(current_data)) =>
        \A k \in Keys(previous_data) \cap Keys(current_data) :
            LET old == ComparisonField(RecordOf(previous_data, k))
                new == ComparisonField(RecordOf(current_data, k))
            IN (old # new /\ {old, new} \cap {Absent, None} = {}) =>
                   /\ ~raised
                   /\ Cardinality(EventsOf(k)) = 1
                   /\ \A i \in EventsOf(k) :
                          /\ update_report[i].change_type = FieldUpdated(k[1])
                          /\ update_report[i].old_value = old
                          /\ update_report[i].new_value = new

\* a call where a pypi key and a github key both changed their comparison field
C4_Witness ==
    /\ Returned
    /\ Unique(previous_data) /\ Unique(current_data)
    /\ \E k1, k2 \in Keys(previous_data) \cap Keys(current_data) :
           /\ k1[1] = PYPI
           /\ k2[1] = GITHUB
           /\ \A k \in {k1, k2} :
                  ComparisonField(RecordOf(previous_data, k))
                      # ComparisonField(RecordOf(current_data, k))
    /\ Len(update_report) = 2

-----------------------------------------------------------------------------
(* C5 *)

\* the events of the keys of the first n records of cur, in the order of cur
RECURSIVE ExpectedForCurrent(_, _, _)
ExpectedForCurrent(prev, cur, n) ==
    IF n = 0 THEN <<>>
    ELSE ExpectedForCurrent(prev, cur, n - 1) \o
         (LET c == cur[n]
          IN IF KeyOf(c) \notin Keys(prev)
             THEN << <<Added, c.source, c.name>> >>
             ELSE IF ComparisonField(RecordOf(prev, KeyOf(c))) # ComparisonField(c)
             THEN << <<FieldUpdated(c.source), c.source, c.name>> >>
             ELSE <<>>)

\* the removals among the first n records of prev, in the order of prev
RECURSIVE ExpectedForPrevious(_, _, _)
ExpectedForPrevious(prev, cur, n) ==
    IF n = 0 THEN <<>>
    ELSE ExpectedForPrevious(prev, cur, n - 1) \o
         (LET p == prev[n]
          IN IF KeyOf(p) \notin Keys(cur)
             THEN << <<Removed, p.source, p.name>> >>
             ELSE <<>>)

ScenarioPrevious ==
    << PypiRecord("numpy", "1.0", "t1"),
       GithubRecord("torvalds/linux", "10", "2023-01-01", "t1") >>

ScenarioCurrent ==
    << PypiRecord("numpy", "1.1", "t2"), PypiRecord("pandas", "2.0", "t2") >>

\* C5: for snapshots with unique keys the events come in an order the two
\* input lists fix: the "新增" and update events of the current snapshot's
\* keys in the order of the current snapshot, then the "移除" events in the
\* order of the previous snapshot; the scenario of numpy, pandas and
\* torvalds/linux gives update(numpy), added(pandas), removed(torvalds/linux).
C5_OrderFromInputs ==
    (Returned /\ Unique(previous_data) /\ Unique(current_data)) =>
        /\ ~raised
        /\ Brief(update_report)
               = ExpectedForCurrent(previous_data, current_data, Len(current_data))
                 \o ExpectedForPrevious(previous_data, current_data,
                                        Len(previous_data))
        /\ (previous_data = ScenarioPrevious /\ current_data = ScenarioCurrent) =>
               Cores(update_report)
                   = << Core(Event(PYPI, "numpy", VersionUpdated, "1.0", "1.1", None)),
                        Core(Event(PYPI, "pandas", Added, None, "2.0", None)),
                        Core(Event(GITHUB, "torvalds/linux", Removed,
                                   "2023-01-01", None, None)) >>

C5_Witness ==
    /\ Returned
    /\ previous_data = ScenarioPrevious
    /\ current_data = ScenarioCurrent
    /\ Len(update_report) = 3

-----------------------------------------------------------------------------
(* C6 *)

\* C6: the value of a "新增" or "移除" event is the comparison field of the
\* record's source kind (None when the dict has no such key): old_value None
\* and new_value the version (pypi) or last_updated (github) for "新增",
\* new_value None and old_value that field of the previous record for
\* "移除"; for every record, also one whose field is missing, null or empty
\* or that carries the other kind's field.
C6_ValueBySourceKind ==
    (Returned /\ ~raised /\ Unique(previous_data) /\ Unique(current_data)) =>
        \A i \in 1..Len(update_report) :
            LET e == update_report[i]
                k == <<e.source, e.name>>
            IN /\ e.change_type = Added =>
                      /\ e.old_value = None
                      /\ e.new_value
                             = Get(RecordOf(current_data, k), ComparisonKey(e.source))
               /\ e.change_type = Removed =>
                      /\ e.new_value = None
                      /\ e.old_value
                             = Get(RecordOf(previous_data, k), ComparisonKey(e.source))

-----------------------------------------------------------------------------
(* C7 *)

\* C7: compare_metadata never raises; for a key in both snapshots whose
\* comparison field is in one record and missing from the other it emits an
\* update event with the missing side as None, and when the field is missing
\* from both it emits nothing for the key.
C7_MissingFieldIsADifference ==
    (Returned /\ Unique(previous_data) /\ Unique(current_data)) =>
        /\ ~raised
        /\ \A k \in Keys(previous_data) \cap Keys(current_data) :
               LET old == ComparisonField(RecordOf(previous_data, k))
                   new == ComparisonField(RecordOf(current_data, k))
               IN /\ (old = Absent /\ new = Absent) => EventsOf(k) = {}
                  /\ ((old = Absent) # (new = Absent)) =>
                         /\ Cardinality(EventsOf(k)) = 1
                         /\ \A i \in EventsOf(k) :
                                /\ update_report[i].change_type = FieldUpdated(k[1])
                                /\ update_report[i].old_value
                                       = Get(RecordOf(previous_data, k),
                                             ComparisonKey(k[1]))
                                /\ update_report[i].new_value
                                       = Get(RecordOf(current_data, k),
                                             ComparisonKey(k[1]))

-----------------------------------------------------------------------------
(* C8 *)

InLoop == pc = "fetch"
AfterLoop == pc \in {"save", "compare", "return"}

AllTargets == [i \in 1..Len(targets) |-> i]

\* C8: in the fetch loop of both main functions every target is attempted
\* once, in list order, whatever the earlier fetches ended with, and after
\* the loop the collected list holds one record per target whose request
\* succeeded, in target order, and nothing for a failed one.
C8_BatchNeverAborts ==
    /\ InLoop => attempted = [i \in 1..(idx - 1) |-> i]
    /\ AfterLoop => attempted = AllTargets
    /\ (InLoop \/ AfterLoop) =>
           /\ Len(current_data) = Len(fetched)
           /\ \A i, j \in 1..Len(fetched) : i < j => fetched[i] < fetched[j]
           /\ \A i \in 1..Len(fetched) :
                  KeyOf(current_data[i]) = KeyOf(targets[fetched[i]])

\* the loop ended after the first and third request failed and the second
\* and fourth succeeded, in the script without a try block in the loop
C8_Witness ==
    /\ prog = "Get_Date"
    /\ pc = "save"
    /\ fetched = <<2, 4>>
    /\ Len(current_data) = 2

-----------------------------------------------------------------------------
(* C9 *)

\* the snapshot output/metadata.json holds, [] when there is none to read
SnapshotIn(f) == IF f.state = "json" THEN f.data ELSE <<>>

\* C9 as stated, of every run of either main: metadata.json is read before
\* it is written, it is not written before every target was fetched, and the
\* diff of the run is between the snapshot persisted when the run began and
\* the records fetched in the run.
C9_EveryRunLoadsBeforeOverwrite ==
    /\ writes > 0 => (loaded /\ attempted = AllTargets)
    /\ pc = "return" =>
           \E now \in Times :
               update_report
                   = compare_metadata(SnapshotIn(file_at_start), current_data,
                                      now).updates

\* C9, amended: in every run of test_data.main metadata.json is read before
\* it is written and the diff is between the snapshot persisted when the run
\* began and the records fetched in the run; in every run of either main
\* nothing is written to metadata.json before every target was fetched.
\* Get_Date.main never reads the file and computes no diff.
C9_TestDataLoadsBeforeOverwrite ==
    /\ writes > 0 => attempted = AllTargets
    /\ prog = "test_data" =>
           /\ writes > 0 => loaded
           /\ (InLoop \/ AfterLoop) =>
                  previous_data = SnapshotIn(file_at_start)
           /\ (InLoop \/ pc = "save") => file = file_at_start
           /\ pc = "return" =>
                  /\ ~raised
                  /\ \E now \in Times :
                         update_report
                             = compare_metadata(SnapshotIn(file_at_start),
                                                current_data, now).updates
    /\ prog = "Get_Date" => (~loaded /\ update_report = <<>>)

\* a run of test_data.main that began with a snapshot on disk, replaced it
\* and reported changes against it
C9_Witness ==
    /\ prog = "test_data"
    /\ pc = "return"
    /\ file_at_start.state = "json"
    /\ file_at_start.data # <<>>
    /\ writes = 1
    /\ file # file_at_start
    /\ update_report # <<>>

-----------------------------------------------------------------------------
(* C10 *)

\* the last position of data holding the key of data[i]
LastPosition(data, i) ==
    CHOOSE j \in i..Len(data) :
        /\ KeyOf(data[j]) = KeyOf(data[i])
        /\ \A l \in (j + 1)..Len(data) : KeyOf(data[l]) # KeyOf(data[i])

FirstPositions(data) ==
    {i \in 1..Len(data) : \A j \in 1..(i - 1) : KeyOf(data[j]) # KeyOf(data[i])}

LastPositions(data) == {i \in 1..Len(data) : LastPosition(data, i) = i}

\* data with every earlier duplicate removed
WithoutEarlierDuplicates(data) == AtIndices(data, LastPositions(data), Len(data))

\* data with the first record of each key replaced by the last record of
\* that key and the other records of the key removed
LastAtFirstPosition(data) ==
    AtIndices([i \in 1..Len(data) |-> data[LastPosition(data, i)]],
              FirstPositions(data), Len(data))

\* C10 as stated: the events are those of the inputs with every earlier
\* duplicate of a (source, name) removed.
C10_SameAsEarlierDuplicatesRemoved ==
    Returned =>
        Cores(update_report)
            = Cores(compare_metadata(WithoutEarlierDuplicates(previous_data),
                                     WithoutEarlierDuplicates(current_data),
                                     "t1").updates)

\* C10, amended: of several records with the same (source, name) the last
\* one is kept, at the position of the first one: the events are those of
\* the inputs in which the first record of each key is replaced by the last
\* record of that key and the key's other records are removed; at most one
\* event is emitted per (source, name).
C10_LastRecordAtFirstPosition ==
    Returned =>
        /\ ~raised
        /\ Cores(update_report)
               = Cores(compare_metadata(LastAtFirstPosition(previous_data),
                                        LastAtFirstPosition(current_data),
                                        "t1").updates)
        /\ \A k \in Keys(previous_data) \cup Keys(current_data) :
               Cardinality(EventsOf(k)) <= 1

\* a call whose current list holds numpy twice, at two versions, around
\* another record, and whose previous list holds numpy too
C10_Witness ==
    /\ Returned
    /\ Len(current_data) = 3
    /\ KeyOf(current_data[1]) = KeyOf(current_data[3])
    /\ KeyOf(current_data[1]) # KeyOf(current_data[2])
    /\ current_data[1].version # current_data[3].version
    /\ Len(previous_data) = 1
    /\ KeyOf(previous_data[1]) = KeyOf(current_data[1])
    /\ previous_data[1].version = current_data[1].version
    /\ Len(update_report) = 2

====
